---------------------------- MODULE Spec2Model ----------------------------
(***************************************************************************)
(* Risk aggregation, alerting and the scheduled report cycle of the        *)
(* ChiefOS ecosystem manager (src/src/ecosystem).                          *)
(*                                                                         *)
(* Ratios, prices and peg deviations are JavaScript numbers in the code.   *)
(* They are modelled as integers scaled by 1000 (1050 is 1.05, 5 is        *)
(* 0.005), which represents every threshold of the code exactly.           *)
(* Date.now() is the model clock `now`.                                    *)
(***************************************************************************)
EXTENDS Integers, Sequences, FiniteSets, TLC

(***************************************************************************)
(* Bounds of the model.                                                    *)
(***************************************************************************)
MaxRatio == 1200
MaxDeviation == 100
MaxLaunches == 1
MaxVerified == 2
MaxTime == 2
MaxGovTime == 1
MaxApiTime == 1
MaxPauses == 2
MaxPromoTime == 1
MaxPmTime == 1

(***************************************************************************)
(* Program constants (scaled by 1000).                                     *)
(***************************************************************************)
RESERVE_GREEN == 1050
RESERVE_YELLOW == 1020
RESERVE_ORANGE == 1000
RESERVE_RED == 980
PEG_GREEN == 5
PEG_YELLOW == 10
PEG_ORANGE == 20
PEG_RED == 50
COLLATERAL_RED == 1000
PEG_TARGET == 1000
LAUNCH_NEAR_COMPLETION == 90

RiskLevel == {"GREEN", "YELLOW", "ORANGE", "RED"}
RiskOrder == <<"GREEN", "YELLOW", "ORANGE", "RED">>

\* order.indexOf(level), 0-based as in the code
IndexOf(level) == (CHOOSE i \in 1..Len(RiskOrder) : RiskOrder[i] = level) - 1

Abs(x) == IF x < 0 THEN -x ELSE x
Max(a, b) == IF a >= b THEN a ELSE b

Range(s) == {s[i] : i \in 1..Len(s)}

(***************************************************************************)
(* Metric sources.  The getters of the token agents are the interface to   *)
(* the chain / oracle; what they return is the state below.                *)
(***************************************************************************)
VARIABLES
    goldReserveRatio,        \* USDGBAgent.getGoldReserveRatio()
    deltaCollateralization,  \* USDcaAgent.getDeltaCollateralization()
    usdgbPegPrice,           \* USDGBAgent.getPegPrice()
    usdcaPegPrice,           \* USDcaAgent.getPegPrice()
    activeLaunches,          \* MarketplaceAgent.activeLaunches, in insertion order
    now,                     \* Date.now()
    call,                    \* last call of a classification helper: [op, arg, ret]
    ret,                     \* last return of an agent / governor operation: [op, val]
    bucket,                  \* env.ECOSYSTEM_BUCKET: object key -> stored JSON value
    puts,                    \* object key -> number of puts that stored a value there
    emergencyStatus,         \* GovernorAgent.emergencyStatus
    messagesVerified,        \* GovernorAgent.messagesVerified
    shownEmergency,          \* emergencyStatus of the governor report produced last
    env,                     \* the worker's configuration (EcosystemEnv)
    pc,                      \* per run (handleScheduled or a route): where it stands
    local,                   \* per run: its snapshots, report and caught error
    outcome,                 \* per run: "none", "returned" or "threw"; of a route,
                             \* "responded" or "failed" (the error response)
    sent,                    \* notification sends attempted so far: send -> how often
    promoterEnv,             \* PromoterEnv: ALLOWED_EXPORTS and APPROVAL_WEBHOOK
    promoterBucket,          \* env.PROMOTER_BUCKET: object key -> stored JSON value
    chiefpmEnv,              \* ChiefPMEnv: CHIEFPM_ENABLED, and whether the KV is bound
    kv,                      \* env.CHIEFPM_TASKS_KV: key -> stored JSON value
    pmPc,                    \* per ChiefPM request: where it stands
    pmLocal                  \* per ChiefPM request: its operation and what it has read

ReserveValues == {979, 980, 999, 1000, 1019, 1020, 1049, 1050}
CollateralValues == {999, 1000, 1100}
PegPrices == {940, 950, 979, 980, 995, 1000, 1006}
\* a launch of the Map; its key (tokenAddress) is its position in insertion order
LaunchValues == [progressPercent : {50, 90}, status : {"ACTIVE", "COMPLETED"}]
LaunchSeqs == UNION {[1..n -> LaunchValues] : n \in 0..MaxLaunches}

NoCall == [op |-> "none"]

(***************************************************************************)
(* Governor classification helpers.                                        *)
(***************************************************************************)
assessReserveRisk_strict(ratio) ==
    IF ratio > RESERVE_GREEN THEN "GREEN"
    ELSE IF ratio > RESERVE_YELLOW THEN "YELLOW"
    ELSE IF ratio > RESERVE_ORANGE THEN "ORANGE"
    ELSE "RED"

assessReserveRisk(ratio) ==
    IF ratio >= RESERVE_GREEN THEN "GREEN"
    ELSE IF ratio >= RESERVE_YELLOW THEN "YELLOW"
    ELSE IF ratio >= RESERVE_ORANGE THEN "ORANGE"
    ELSE "RED"

assessPegRisk_strict(deviation) ==
    IF deviation < PEG_GREEN THEN "GREEN"
    ELSE IF deviation < PEG_YELLOW THEN "YELLOW"
    ELSE IF deviation < PEG_ORANGE THEN "ORANGE"
    ELSE "RED"

assessPegRisk(deviation) ==
    IF deviation <= PEG_GREEN THEN "GREEN"
    ELSE IF deviation <= PEG_YELLOW THEN "YELLOW"
    ELSE IF deviation <= PEG_ORANGE THEN "ORANGE"
    ELSE "RED"

\* the for-loop of getWorstRisk: worstIndex after the first n levels
RECURSIVE WorstIndex(_, _)
WorstIndex(levels, n) ==
    IF n = 0 THEN 0
    ELSE LET prev == WorstIndex(levels, n - 1)
             index == IndexOf(levels[n])
         IN IF index > prev THEN index ELSE prev

getWorstRisk_first(levels) == levels[1]

getWorstRisk(levels) == RiskOrder[WorstIndex(levels, Len(levels)) + 1]

\* GovernorAgentWrapper.generateReport, the two conditional expressions
wrapperCollateralRisk(usdgbReserve) ==
    IF usdgbReserve >= 1050 THEN "GREEN"
    ELSE IF usdgbReserve >= 1020 THEN "YELLOW"
    ELSE IF usdgbReserve >= 1000 THEN "ORANGE"
    ELSE "RED"

wrapperPegRisk(usdcaPeg) ==
    IF usdcaPeg <= 5 THEN "GREEN"
    ELSE IF usdcaPeg <= 10 THEN "YELLOW"
    ELSE IF usdcaPeg <= 20 THEN "ORANGE"
    ELSE "RED"

wrapperOverall(riskLevels) ==
    IF "RED" \in Range(riskLevels) THEN "RED"
    ELSE IF "ORANGE" \in Range(riskLevels) THEN "ORANGE"
    ELSE IF "YELLOW" \in Range(riskLevels) THEN "YELLOW"
    ELSE "GREEN"

(***************************************************************************)
(* Token agents.                                                           *)
(***************************************************************************)
usdgbPegDeviation == Abs(usdgbPegPrice - PEG_TARGET)
usdcaPegDeviation == Abs(usdcaPegPrice - PEG_TARGET)

Alert(idPrefix, type, severity) ==
    [id |-> <<idPrefix, now>>, type |-> type, severity |-> severity,
     timestamp |-> now, acknowledged |-> FALSE]

reserveAlerts_noCritical(ratio) ==
    IF ratio < RESERVE_ORANGE
    THEN <<Alert("USDGB-RESERVE", "LOW_RESERVE_RATIO", "HIGH")>>
    ELSE <<>>

reserveAlerts(ratio) ==
    IF ratio < RESERVE_RED
    THEN <<Alert("USDGB-RESERVE", "CRITICAL_RESERVE_RATIO", "CRITICAL")>>
    ELSE IF ratio < RESERVE_ORANGE
    THEN <<Alert("USDGB-RESERVE", "LOW_RESERVE_RATIO", "HIGH")>>
    ELSE <<>>

pegAlerts_green(idPrefix, deviation) ==
    IF deviation > PEG_RED
    THEN <<Alert(idPrefix, "CRITICAL_PEG_DEVIATION", "CRITICAL")>>
    ELSE IF deviation >= PEG_GREEN
    THEN <<Alert(idPrefix, "HIGH_PEG_DEVIATION", "HIGH")>>
    ELSE <<>>

pegAlerts(idPrefix, deviation) ==
    IF deviation > PEG_RED
    THEN <<Alert(idPrefix, "CRITICAL_PEG_DEVIATION", "CRITICAL")>>
    ELSE IF deviation > PEG_ORANGE
    THEN <<Alert(idPrefix, "HIGH_PEG_DEVIATION", "HIGH")>>
    ELSE <<>>

collateralAlerts(collateralization) ==
    IF collateralization < COLLATERAL_RED
    THEN <<Alert("USDca-COLLAT", "CRITICAL_UNDERCOLLATERALIZATION", "CRITICAL")>>
    ELSE <<>>

\* USDGBAgent.checkAlerts: reserve first, then peg
usdgbCheckAlerts == reserveAlerts(goldReserveRatio) \o pegAlerts("USDGB-PEG", usdgbPegDeviation)

\* USDcaAgent.checkAlerts: peg first, then collateralization
usdcaCheckAlerts ==
    pegAlerts("USDca-PEG", usdcaPegDeviation) \o collateralAlerts(deltaCollateralization)

launchAlert(tokenAddress) ==
    [id |-> <<"MARKETPLACE-LAUNCH", tokenAddress>>, type |-> "LAUNCH_NEAR_COMPLETION",
     severity |-> "LOW", timestamp |-> now, acknowledged |-> FALSE]

RECURSIVE launchAlerts(_, _)
launchAlerts(launches, n) ==
    IF n = 0 THEN <<>>
    ELSE LET launch == launches[n]
         IN launchAlerts(launches, n - 1) \o
            (IF launch.progressPercent >= LAUNCH_NEAR_COMPLETION /\ launch.status = "ACTIVE"
             THEN <<launchAlert(n)>> ELSE <<>>)

marketplaceCheckAlerts == launchAlerts(activeLaunches, Len(activeLaunches))

(***************************************************************************)
(* Governor.                                                               *)
(***************************************************************************)
allAlerts_reordered == usdcaCheckAlerts \o usdgbCheckAlerts \o marketplaceCheckAlerts

allAlerts == usdgbCheckAlerts \o usdcaCheckAlerts \o marketplaceCheckAlerts

\* GovernorAgent.getRiskStatus
getRiskStatus ==
    LET categories == [collateral |-> assessReserveRisk(goldReserveRatio),
                       peg |-> assessPegRisk(Max(usdgbPegDeviation, usdcaPegDeviation)),
                       liquidity |-> "GREEN",
                       crossChain |-> "GREEN"]
    IN [overall |-> getWorstRisk(<<categories.collateral, categories.peg,
                                   categories.liquidity, categories.crossChain>>),
        categories |-> categories,
        alerts |-> allAlerts,
        lastUpdated |-> now]

\* riskStatus of GovernorAgentWrapper.generateReport
wrapperRiskStatus ==
    LET collateralRisk == wrapperCollateralRisk(goldReserveRatio)
        pegRisk == wrapperPegRisk(usdcaPegDeviation)
    IN [overall |-> wrapperOverall(<<collateralRisk, pegRisk>>),
        categories |-> [collateral |-> collateralRisk, peg |-> pegRisk,
                        liquidity |-> "GREEN", crossChain |-> "GREEN"],
        alerts |-> allAlerts,
        lastUpdated |-> now]

\* GovernorAgentWrapper.generateReport: the wrapper's own fields are never written
wrapperGenerateReport ==
    [riskStatus |-> wrapperRiskStatus,
     crossChainMessagesVerified |-> 0,
     emergencyStatus |-> "STANDBY"]

vars == <<goldReserveRatio, deltaCollateralization, usdgbPegPrice, usdcaPegPrice,
          activeLaunches, now, call, ret, bucket, puts, emergencyStatus,
          messagesVerified, shownEmergency, env, pc, local, outcome, sent,
          promoterEnv, promoterBucket, chiefpmEnv, kv, pmPc, pmLocal>>

governorVars == <<bucket, puts, emergencyStatus, messagesVerified, shownEmergency>>

tickVars == <<env, pc, local, outcome, sent>>

promoterVars == <<promoterEnv, promoterBucket>>

chiefpmVars == <<chiefpmEnv, kv, pmPc, pmLocal>>

metricVars == <<goldReserveRatio, deltaCollateralization, usdgbPegPrice, usdcaPegPrice,
                activeLaunches>>

\* handleScheduled is called by the cron handler (index.ts) and by the
\* /ecosystem/debug/trigger-report route (routes.ts)
Invocations == {"cron", "manual"}
\* the routes that run the agents themselves (routes.ts): POST
\* /ecosystem/report/generate and GET /ecosystem/status
Requests == {"generate", "status"}
Runs == Invocations \cup Requests
Tokens == {"USDGB", "USDca"}
NoLocal == [pending |-> {}, snapshots |-> <<>>, report |-> <<>>, error |-> "none"]

\* a fully configured worker: the vars and secrets of EcosystemEnv that the
\* report cycle reads ("" stands for an unset one)
ConfiguredEnv ==
    [ECOSYSTEM_ENABLED |-> "true", DISCORD_CHANNEL_OPS |-> "ops",
     DISCORD_BOT_TOKEN |-> "discord-token", TELEGRAM_BOT_TOKEN |-> "telegram-token",
     TELEGRAM_CHAT_ID |-> "chat"]

TickIdle ==
    /\ env = ConfiguredEnv
    /\ pc = [i \in Runs |-> "idle"]
    /\ local = [i \in Runs |-> NoLocal]
    /\ outcome = [i \in Runs |-> "none"]
    /\ sent = <<>>

\* ChiefPM requests in flight at the same time
PmRequests == {"p1", "p2"}
NoRequest == [op |-> "none"]

\* the promoter instance and the ChiefPM worker before any operation
PromoterIdle ==
    /\ promoterEnv = [ALLOWED_EXPORTS |-> <<"twitter">>, APPROVAL_WEBHOOK |-> "hook"]
    /\ promoterBucket = <<>>

ChiefPMIdle ==
    /\ chiefpmEnv = [CHIEFPM_ENABLED |-> "true", CHIEFPM_TASKS_KV |-> TRUE]
    /\ kv = <<>>
    /\ pmPc = [r \in PmRequests |-> "idle"]
    /\ pmLocal = [r \in PmRequests |-> NoRequest]

(***************************************************************************)
(* SpecPure: the classification helpers applied to every value of a range. *)
(***************************************************************************)
InitPure ==
    /\ goldReserveRatio = 1050
    /\ deltaCollateralization = 1100
    /\ usdgbPegPrice = 1000
    /\ usdcaPegPrice = 1000
    /\ activeLaunches = <<>>
    /\ now = 0
    /\ call = NoCall
    /\ ret = NoCall
    /\ bucket = <<>>
    /\ puts = <<>>
    /\ emergencyStatus = "STANDBY"
    /\ messagesVerified = 0
    /\ shownEmergency = "none"
    /\ PromoterIdle
    /\ ChiefPMIdle
    /\ TickIdle

AssessReserveRiskCall(ratio) ==
    /\ call' = [op |-> "assessReserveRisk", arg |-> ratio, ret |-> assessReserveRisk(ratio)]
    /\ UNCHANGED <<promoterVars, chiefpmVars, metricVars, now, ret, governorVars, tickVars>>

WrapperCollateralRiskCall(ratio) ==
    /\ call' = [op |-> "wrapperCollateralRisk", arg |-> ratio,
                ret |-> wrapperCollateralRisk(ratio)]
    /\ UNCHANGED <<promoterVars, chiefpmVars, metricVars, now, ret, governorVars, tickVars>>

AssessPegRiskCall(deviation) ==
    /\ call' = [op |-> "assessPegRisk", arg |-> deviation, ret |-> assessPegRisk(deviation)]
    /\ UNCHANGED <<promoterVars, chiefpmVars, metricVars, now, ret, governorVars, tickVars>>

NextPure ==
    \/ \E ratio \in 0..MaxRatio : AssessReserveRiskCall(ratio)
    \/ \E ratio \in 0..MaxRatio : WrapperCollateralRiskCall(ratio)
    \/ \E deviation \in 0..MaxDeviation : AssessPegRiskCall(deviation)

SpecPure == InitPure /\ [][NextPure]_vars

(***************************************************************************)
(* SpecRisk: the agents and the two governors applied to every combination *)
(* of metric values around the thresholds.                                 *)
(***************************************************************************)
InitRisk ==
    /\ goldReserveRatio \in ReserveValues
    /\ deltaCollateralization \in CollateralValues
    /\ usdgbPegPrice \in PegPrices
    /\ usdcaPegPrice \in PegPrices
    /\ activeLaunches \in LaunchSeqs
    /\ now = 0
    /\ call = NoCall
    /\ ret = NoCall
    /\ bucket = <<>>
    /\ puts = <<>>
    /\ emergencyStatus = "STANDBY"
    /\ messagesVerified = 0
    /\ shownEmergency = "none"
    /\ PromoterIdle
    /\ ChiefPMIdle
    /\ TickIdle

UsdgbCheckAlertsCall ==
    /\ ret' = [op |-> "USDGBAgent.checkAlerts", val |-> usdgbCheckAlerts]
    /\ UNCHANGED <<promoterVars, chiefpmVars, metricVars, now, call, governorVars, tickVars>>

UsdcaCheckAlertsCall ==
    /\ ret' = [op |-> "USDcaAgent.checkAlerts", val |-> usdcaCheckAlerts]
    /\ UNCHANGED <<promoterVars, chiefpmVars, metricVars, now, call, governorVars, tickVars>>

MarketplaceCheckAlertsCall ==
    /\ ret' = [op |-> "MarketplaceAgent.checkAlerts", val |-> marketplaceCheckAlerts]
    /\ UNCHANGED <<promoterVars, chiefpmVars, metricVars, now, call, governorVars, tickVars>>

GetRiskStatusCall ==
    /\ ret' = [op |-> "GovernorAgent.getRiskStatus", val |-> [riskStatus |-> getRiskStatus]]
    /\ UNCHANGED <<promoterVars, chiefpmVars, metricVars, now, call, governorVars, tickVars>>

WrapperGenerateReportCall ==
    /\ ret' = [op |-> "GovernorAgentWrapper.generateReport", val |-> wrapperGenerateReport]
    /\ shownEmergency' = wrapperGenerateReport.emergencyStatus
    /\ UNCHANGED <<promoterVars, chiefpmVars, metricVars, now, call, bucket, puts, emergencyStatus, messagesVerified,
                   tickVars>>

NextRisk ==
    \/ UsdgbCheckAlertsCall
    \/ UsdcaCheckAlertsCall
    \/ MarketplaceCheckAlertsCall
    \/ GetRiskStatusCall
    \/ WrapperGenerateReportCall

SpecRisk == InitRisk /\ [][NextRisk]_vars

(***************************************************************************)
(* The object store.  A put either stores the value or rejects (the        *)
(* awaited promise throws); which of the two is the environment's choice.  *)
(***************************************************************************)
Put(store, key, value) ==
    [k \in DOMAIN store \cup {key} |-> IF k = key THEN value ELSE store[k]]

\* await env.ECOSYSTEM_BUCKET.put(key, value) that resolves
BucketPut(key, value) ==
    /\ bucket' = Put(bucket, key, value)
    /\ puts' = Put(puts, key, IF key \in DOMAIN puts THEN puts[key] + 1 ELSE 1)

\* a JavaScript bigint n, and the decimal string value.toString() makes of it
BigInt(n) == [bigint |-> n]
BigIntToString(value) == [string |-> value.bigint]

(***************************************************************************)
(* GovernorAgent operations (governor-agent.ts).                           *)
(***************************************************************************)
\* an endpoint id of 0 stands for every falsy value (0, undefined)
Guids == {"", "g1", "g2"}
EndpointIds == {0, 1}
Messages == [guid : Guids, srcEid : EndpointIds, dstEid : EndpointIds, nonce : {BigInt(7)}]
PauseRequests == {[contractAddress |-> "0xC1", reason |-> "depeg"],
                  [contractAddress |-> "0xC2", reason |-> "reserve"]}

isInvalidMessage_guidOnly(msg) == msg.guid = ""

\* !msg.guid || !msg.srcEid || !msg.dstEid
isInvalidMessage(msg) == msg.guid = "" \/ msg.srcEid = 0 \/ msg.dstEid = 0

crossChainKey(msg) ==
    "crosschain/" \o ToString(msg.srcEid) \o "-" \o ToString(msg.dstEid) \o "/" \o
    msg.guid \o ".json"

\* serializeWithBigInt({...msg, verifiedAt: Date.now()})
messageRecord(msg) ==
    [guid |-> msg.guid, srcEid |-> msg.srcEid, dstEid |-> msg.dstEid,
     nonce |-> BigIntToString(msg.nonce), verifiedAt |-> now]

VerifyMessage(msg, putOk) ==
    /\ messagesVerified < MaxVerified
    /\ IF isInvalidMessage(msg)
       THEN /\ ret' = [op |-> "GovernorAgent.verifyMessage", val |-> FALSE, threw |-> FALSE]
            /\ UNCHANGED <<messagesVerified, bucket, puts>>
       ELSE /\ messagesVerified' = messagesVerified + 1
            /\ IF putOk
               THEN /\ BucketPut(crossChainKey(msg), messageRecord(msg))
                    /\ ret' = [op |-> "GovernorAgent.verifyMessage", val |-> TRUE,
                               threw |-> FALSE]
               ELSE /\ UNCHANGED <<bucket, puts>>
                    /\ ret' = [op |-> "GovernorAgent.verifyMessage", val |-> FALSE,
                               threw |-> TRUE]
    /\ UNCHANGED <<promoterVars, chiefpmVars, metricVars, now, call, emergencyStatus, shownEmergency, tickVars>>

emergencyKeyAt(timestamp) == "emergency/pending/" \o ToString(timestamp) \o ".json"

emergencyKey == emergencyKeyAt(now)

pauseTx(contractAddress, reason) ==
    [txData |-> "0x8456cb59", to |-> contractAddress, reason |-> reason,
     preparedAt |-> now, preparedBy |-> "governor-agent", status |-> "AWAITING_MULTISIG"]

RECURSIVE PutsAt(_)
PutsAt(keys) ==
    IF keys = {} THEN 0
    ELSE LET key == CHOOSE k \in keys : TRUE
         IN puts[key] + PutsAt(keys \ {key})

\* the pause proposals stored so far
PausesPrepared == PutsAt({emergencyKeyAt(t) : t \in 0..now} \cap DOMAIN puts)

PrepareEmergencyPause(contractAddress, reason, putOk) ==
    /\ PausesPrepared < MaxPauses
    /\ IF putOk
       THEN /\ BucketPut(emergencyKey, pauseTx(contractAddress, reason))
            /\ emergencyStatus' = "ACTIVE"
            /\ ret' = [op |-> "GovernorAgent.prepareEmergencyPause",
                       val |-> pauseTx(contractAddress, reason), threw |-> FALSE]
       ELSE /\ UNCHANGED <<bucket, puts, emergencyStatus>>
            /\ ret' = [op |-> "GovernorAgent.prepareEmergencyPause", val |-> FALSE,
                       threw |-> TRUE]
    /\ UNCHANGED <<promoterVars, chiefpmVars, metricVars, now, call, messagesVerified, shownEmergency, tickVars>>

governorGenerateReport ==
    [riskStatus |-> getRiskStatus,
     crossChainMessagesVerified |-> messagesVerified,
     emergencyStatus |-> emergencyStatus]

GovernorGenerateReport ==
    /\ ret' = [op |-> "GovernorAgent.generateReport", val |-> governorGenerateReport]
    /\ shownEmergency' = governorGenerateReport.emergencyStatus
    /\ UNCHANGED <<promoterVars, chiefpmVars, metricVars, now, call, bucket, puts, emergencyStatus, messagesVerified,
                   tickVars>>

\* Date.now() moves on
Advance(limit) ==
    /\ now < limit
    /\ now' = now + 1
    /\ UNCHANGED <<promoterVars, chiefpmVars, metricVars, call, ret, governorVars, tickVars>>

(***************************************************************************)
(* SpecGov: one GovernorAgent, the report cycle's governor and the clock.  *)
(***************************************************************************)
InitGov ==
    /\ goldReserveRatio = 1050
    /\ deltaCollateralization = 1100
    /\ usdgbPegPrice = 1000
    /\ usdcaPegPrice = 1000
    /\ activeLaunches = <<>>
    /\ now = 0
    /\ call = NoCall
    /\ ret = NoCall
    /\ bucket = <<>>
    /\ puts = <<>>
    /\ emergencyStatus = "STANDBY"
    /\ messagesVerified = 0
    /\ shownEmergency = "none"
    /\ PromoterIdle
    /\ ChiefPMIdle
    /\ TickIdle

NextGov ==
    \/ \E msg \in Messages, putOk \in BOOLEAN : VerifyMessage(msg, putOk)
    \/ \E request \in PauseRequests, putOk \in BOOLEAN :
           PrepareEmergencyPause(request.contractAddress, request.reason, putOk)
    \/ GovernorGenerateReport
    \/ GetRiskStatusCall
    \/ WrapperGenerateReportCall
    \/ Advance(MaxGovTime)

SpecGov == InitGov /\ [][NextGov]_vars

(***************************************************************************)
(* Supply snapshots (usdgb-agent.ts, usdca-agent.ts) and the report        *)
(* (ecosystem/index.ts).  One unit of the clock is 12 hours.               *)
(***************************************************************************)
DAY == 2

snapshotKey(token, timestamp) ==
    "supply-snapshots/" \o token \o "/" \o ToString(timestamp) \o ".json"

reportKey_noPeriod(period, timestamp) == "reports/" \o ToString(timestamp) \o ".json"

reportKey(period, timestamp) == "reports/" \o period \o "/" \o ToString(timestamp) \o ".json"

latestKey == "reports/latest.json"

errorKey(timestamp) == "errors/" \o ToString(timestamp) \o ".json"

\* currentSupply - historicalSnapshot.totalSupply: a bigint minus a value that is
\* not a bigint is a TypeError
TypeError == [throws |-> "TypeError"]

bigintMinus(a, b) ==
    IF "bigint" \in DOMAIN b THEN BigInt(a.bigint - b.bigint) ELSE TypeError

\* getChainSupply: the supply of the one chain queried
chainSupply == BigInt(0)

\* calculate24hChange: the stored snapshot of 24 hours ago is what JSON.parse
\* makes of the stored text, or there is none
calculate24hChange(token, currentSupply) ==
    IF snapshotKey(token, now - DAY) \in DOMAIN bucket
    THEN bigintMinus(currentSupply, bucket[snapshotKey(token, now - DAY)].totalSupply)
    ELSE BigInt(0)

supplySnapshot(token) ==
    [timestamp |-> now, token |-> token, totalSupply |-> chainSupply,
     totalChange24h |-> calculate24hChange(token, chainSupply)]

\* serializeWithBigInt on a snapshot: every bigint becomes its decimal string
serializeSnapshot(snapshot) ==
    [snapshot EXCEPT !.totalSupply = BigIntToString(@),
                     !.totalChange24h = BigIntToString(@)]

operationalReport(snapshots) ==
    [timestamp |-> now,
     period |-> "4h",
     agents |-> [usdgb |-> [supply |-> snapshots["USDGB"],
                            goldReserveRatio |-> goldReserveRatio,
                            pegPrice |-> usdgbPegPrice,
                            alertCount |-> Len(usdgbCheckAlerts)],
                 usdca |-> [supply |-> snapshots["USDca"],
                            deltaCollateralization |-> deltaCollateralization,
                            pegPrice |-> usdcaPegPrice,
                            alertCount |-> Len(usdcaCheckAlerts)],
                 marketplace |-> [activeLaunches |-> Len(activeLaunches),
                                  totalRaised24h |-> BigInt(0)],
                 governor |-> wrapperGenerateReport]]

serializeReport(report) ==
    [report EXCEPT !.agents.usdgb.supply = serializeSnapshot(@),
                   !.agents.usdca.supply = serializeSnapshot(@),
                   !.agents.marketplace.totalRaised24h = BigIntToString(@)]

(***************************************************************************)
(* handleScheduled (scheduled.ts), one step per awaited operation.         *)
(***************************************************************************)
Goto(i, label) == pc' = [pc EXCEPT ![i] = label]

Return(i, how) ==
    /\ Goto(i, "done")
    /\ outcome' = [outcome EXCEPT ![i] = how]

Start_falseOnly(i) ==
    /\ pc[i] = "idle"
    /\ IF env.ECOSYSTEM_ENABLED = "false"
       THEN /\ Return(i, "returned")
            /\ UNCHANGED local
       ELSE /\ Goto(i, "generate")
            /\ local' = [local EXCEPT ![i].pending = Tokens]
            /\ UNCHANGED outcome
    /\ UNCHANGED <<promoterVars, chiefpmVars, metricVars, now, call, ret, governorVars, env, sent>>

\* the feature-flag check and the construction of the EcosystemManager
Start(i) ==
    /\ pc[i] = "idle"
    /\ IF env.ECOSYSTEM_ENABLED # "true"
       THEN /\ Return(i, "returned")
            /\ UNCHANGED local
       ELSE /\ Goto(i, "generate")
            /\ local' = [local EXCEPT ![i].pending = Tokens]
            /\ UNCHANGED outcome
    /\ UNCHANGED <<promoterVars, chiefpmVars, metricVars, now, call, ret, governorVars, env, sent>>

\* getSupplySnapshot of one token agent inside Promise.all
Snapshot(i, token, putOk) ==
    /\ pc[i] = "generate"
    /\ token \in local[i].pending
    /\ LET snapshot == supplySnapshot(token)
       IN IF snapshot.totalChange24h = TypeError
          THEN /\ local' = [local EXCEPT ![i].pending = @ \ {token},
                                         ![i].error = "TypeError"]
               /\ UNCHANGED <<bucket, puts>>
          ELSE IF putOk
          THEN /\ BucketPut(snapshotKey(token, snapshot.timestamp),
                                serializeSnapshot(snapshot))
               /\ local' = [local EXCEPT ![i].pending = @ \ {token},
                                         ![i].snapshots = Put(@, token, snapshot)]
          ELSE /\ local' = [local EXCEPT ![i].pending = @ \ {token},
                                         ![i].error = "put failed"]
               /\ UNCHANGED <<bucket, puts>>
    /\ UNCHANGED <<promoterVars, chiefpmVars, metricVars, now, call, ret, emergencyStatus, messagesVerified,
                   shownEmergency, env, pc, outcome, sent>>

\* Promise.all rejected: generate4HourReport throws into the catch block
GenerateFailed(i) ==
    /\ pc[i] = "generate"
    /\ local[i].pending = {}
    /\ local[i].error # "none"
    /\ Goto(i, "catch")
    /\ UNCHANGED <<promoterVars, chiefpmVars, metricVars, now, call, ret, governorVars, env, local, outcome, sent>>

\* the report is assembled and storeReport puts it at its timestamped key
StoreReport(i, putOk) ==
    /\ pc[i] = "generate"
    /\ local[i].pending = {}
    /\ local[i].error = "none"
    /\ LET report == operationalReport(local[i].snapshots)
       IN /\ shownEmergency' = report.agents.governor.emergencyStatus
          /\ IF putOk
             THEN /\ BucketPut(reportKey(report.period, report.timestamp),
                                   serializeReport(report))
                  /\ local' = [local EXCEPT ![i].report = report]
                  /\ Goto(i, "latest")
             ELSE /\ local' = [local EXCEPT ![i].error = "put failed"]
                  /\ Goto(i, "catch")
                  /\ UNCHANGED <<bucket, puts>>
    /\ UNCHANGED <<promoterVars, chiefpmVars, metricVars, now, call, ret, emergencyStatus, messagesVerified,
                   env, outcome, sent>>

PutLatest(i, putOk) ==
    /\ pc[i] = "latest"
    /\ IF putOk
       THEN /\ BucketPut(latestKey, serializeReport(local[i].report))
            /\ Goto(i, "notify")
            /\ UNCHANGED local
       ELSE /\ local' = [local EXCEPT ![i].error = "put failed"]
            /\ Goto(i, "catch")
            /\ UNCHANGED <<bucket, puts>>
    /\ UNCHANGED <<promoterVars, chiefpmVars, metricVars, now, call, ret, emergencyStatus, messagesVerified,
                   shownEmergency, env, outcome, sent>>

\* what the fetch of a send does: the API accepts, the API answers with an
\* error, or the request itself fails (fetch rejects)
FetchOutcomes == {"ok", "api error", "network error"}

\* sendTelegramMessage(env, text, chatId): never rejects
sendTelegramMessage(e, chatId, fetch) ==
    IF e.TELEGRAM_BOT_TOKEN = ""
    THEN [success |-> FALSE, error |-> "TELEGRAM_BOT_TOKEN not set", threw |-> FALSE]
    ELSE IF (IF chatId # "" THEN chatId ELSE e.TELEGRAM_CHAT_ID) = ""
    THEN [success |-> FALSE, error |-> "No Chat ID available", threw |-> FALSE]
    ELSE IF fetch = "ok"
    THEN [success |-> TRUE, error |-> "", threw |-> FALSE]
    ELSE [success |-> FALSE, error |-> fetch, threw |-> FALSE]

\* sendDiscordMessage(env, text, channelId): never rejects
sendDiscordMessage_rethrows(e, channelId, fetch) ==
    IF e.DISCORD_BOT_TOKEN = ""
    THEN [success |-> FALSE, error |-> "DISCORD_BOT_TOKEN not set", threw |-> FALSE]
    ELSE IF channelId = ""
    THEN [success |-> FALSE, error |-> "No Channel ID provided", threw |-> FALSE]
    ELSE IF fetch = "ok"
    THEN [success |-> TRUE, error |-> "", threw |-> FALSE]
    ELSE IF fetch = "api error"
    THEN [success |-> FALSE, error |-> fetch, threw |-> FALSE]
    ELSE [success |-> FALSE, error |-> fetch, threw |-> TRUE]

sendDiscordMessage(e, channelId, fetch) ==
    IF e.DISCORD_BOT_TOKEN = ""
    THEN [success |-> FALSE, error |-> "DISCORD_BOT_TOKEN not set", threw |-> FALSE]
    ELSE IF channelId = ""
    THEN [success |-> FALSE, error |-> "No Channel ID provided", threw |-> FALSE]
    ELSE IF fetch = "ok"
    THEN [success |-> TRUE, error |-> "", threw |-> FALSE]
    ELSE [success |-> FALSE, error |-> fetch, threw |-> FALSE]

\* a send awaited by run i; handleScheduled ignores the result
Send(i, transport, kind, result) ==
    LET send == [by |-> i, transport |-> transport, kind |-> kind,
                 success |-> result.success]
    IN sent' = Put(sent, send, IF send \in DOMAIN sent THEN sent[send] + 1 ELSE 1)

\* sendDiscordMessage(env, summary, env.DISCORD_CHANNEL_OPS); its result is ignored
NotifyOps(i, fetch) ==
    /\ pc[i] = "notify"
    /\ LET result == sendDiscordMessage(env, env.DISCORD_CHANNEL_OPS, fetch)
       IN IF env.DISCORD_CHANNEL_OPS = ""
          THEN /\ Goto(i, "escalate")
               /\ UNCHANGED <<sent, local>>
          ELSE IF result.threw
          THEN /\ Goto(i, "catch")
               /\ local' = [local EXCEPT ![i].error = "send failed"]
               /\ UNCHANGED sent
          ELSE /\ Send(i, "discord", "summary", result)
               /\ Goto(i, "escalate")
               /\ UNCHANGED local
    /\ UNCHANGED <<promoterVars, chiefpmVars, metricVars, now, call, ret, governorVars, env, outcome>>

criticalAlerts_criticalOnly(report) ==
    SelectSeq(report.agents.governor.riskStatus.alerts, LAMBDA a : a.severity = "CRITICAL")

criticalAlerts(report) ==
    SelectSeq(report.agents.governor.riskStatus.alerts,
              LAMBDA a : a.severity = "CRITICAL" \/ a.severity = "HIGH")

\* sendTelegramMessage(env, alertMsg) when there are HIGH or CRITICAL alerts
Escalate(i, fetch) ==
    /\ pc[i] = "escalate"
    /\ LET result == sendTelegramMessage(env, "", fetch)
       IN IF Len(criticalAlerts(local[i].report)) = 0
          THEN /\ Return(i, "returned")
               /\ UNCHANGED <<sent, local>>
          ELSE IF result.threw
          THEN /\ Goto(i, "catch")
               /\ local' = [local EXCEPT ![i].error = "send failed"]
               /\ UNCHANGED <<sent, outcome>>
          ELSE /\ Send(i, "telegram", "escalation", result)
               /\ Return(i, "returned")
               /\ UNCHANGED local
    /\ UNCHANGED <<promoterVars, chiefpmVars, metricVars, now, call, ret, governorVars, env>>

\* catch: the crash notification
CatchNotify(i, fetch) ==
    /\ pc[i] = "catch"
    /\ LET result == sendDiscordMessage(env, env.DISCORD_CHANNEL_OPS, fetch)
       IN IF env.DISCORD_CHANNEL_OPS = ""
          THEN /\ Goto(i, "errorRecord")
               /\ UNCHANGED <<sent, outcome>>
          ELSE IF result.threw
          THEN /\ Return(i, "threw")
               /\ UNCHANGED sent
          ELSE /\ Send(i, "discord", "crash", result)
               /\ Goto(i, "errorRecord")
               /\ UNCHANGED outcome
    /\ UNCHANGED <<promoterVars, chiefpmVars, metricVars, now, call, ret, governorVars, env, local>>

errorRecord(error) == [timestamp |-> now, error |-> error, task |-> "scheduled-report"]

\* catch: the put of the error record is awaited outside any try
ErrorRecord(i, putOk) ==
    /\ pc[i] = "errorRecord"
    /\ IF putOk
       THEN /\ BucketPut(errorKey(now), errorRecord(local[i].error))
            /\ Return(i, "returned")
       ELSE /\ UNCHANGED <<bucket, puts>>
            /\ Return(i, "threw")
    /\ UNCHANGED <<promoterVars, chiefpmVars, metricVars, now, call, ret, emergencyStatus, messagesVerified,
                   shownEmergency, env, local, sent>>

(***************************************************************************)
(* The routes that run the agents (routes.ts).  A rejection inside a route *)
(* is caught by handleEcosystemRequest, which answers with the error.      *)
(***************************************************************************)
\* new EcosystemManager(env); the token agents' generateReport calls start
RequestStart(r) ==
    /\ pc[r] = "idle"
    /\ Goto(r, "generate")
    /\ local' = [local EXCEPT ![r].pending = Tokens]
    /\ UNCHANGED <<promoterVars, chiefpmVars, metricVars, now, call, ret, governorVars, env, outcome, sent>>

\* getStatus: Promise.all of both token reports and the governor report, then
\* the response
StatusRespond ==
    /\ pc["status"] = "generate"
    /\ local["status"].pending = {}
    /\ shownEmergency' = wrapperGenerateReport.emergencyStatus
    /\ Return("status", IF local["status"].error = "none" THEN "responded" ELSE "failed")
    /\ UNCHANGED <<promoterVars, chiefpmVars, metricVars, now, call, ret, bucket, puts, emergencyStatus,
                   messagesVerified, env, local, sent>>

\* generateReport: manager.generate4HourReport() rejected
RouteGenerateFailed ==
    /\ pc["generate"] = "generate"
    /\ local["generate"].pending = {}
    /\ local["generate"].error # "none"
    /\ Return("generate", "failed")
    /\ UNCHANGED <<promoterVars, chiefpmVars, metricVars, now, call, ret, governorVars, env, local, sent>>

\* generateReport: the report is assembled and storeReport puts it
RouteStoreReport(putOk) ==
    /\ pc["generate"] = "generate"
    /\ local["generate"].pending = {}
    /\ local["generate"].error = "none"
    /\ LET report == operationalReport(local["generate"].snapshots)
       IN /\ shownEmergency' = report.agents.governor.emergencyStatus
          /\ IF putOk
             THEN /\ BucketPut(reportKey(report.period, report.timestamp),
                               serializeReport(report))
                  /\ local' = [local EXCEPT !["generate"].report = report]
                  /\ Goto("generate", "latest")
                  /\ UNCHANGED outcome
             ELSE /\ local' = [local EXCEPT !["generate"].error = "put failed"]
                  /\ Return("generate", "failed")
                  /\ UNCHANGED <<bucket, puts>>
    /\ UNCHANGED <<promoterVars, chiefpmVars, metricVars, now, call, ret, emergencyStatus, messagesVerified,
                   env, sent>>

\* generateReport: the put of reports/latest.json, then the response
RoutePutLatest(putOk) ==
    /\ pc["generate"] = "latest"
    /\ IF putOk
       THEN /\ BucketPut(latestKey, serializeReport(local["generate"].report))
            /\ Return("generate", "responded")
            /\ UNCHANGED local
       ELSE /\ local' = [local EXCEPT !["generate"].error = "put failed"]
            /\ Return("generate", "failed")
            /\ UNCHANGED <<bucket, puts>>
    /\ UNCHANGED <<promoterVars, chiefpmVars, metricVars, now, call, ret, emergencyStatus, messagesVerified,
                   shownEmergency, env, sent>>

(***************************************************************************)
(* Spec: invocations of handleScheduled, interleaved, and the clock.       *)
(***************************************************************************)
Init ==
    /\ goldReserveRatio \in {1050, 999}
    /\ deltaCollateralization = 1100
    /\ usdgbPegPrice = 1000
    /\ usdcaPegPrice = 1000
    /\ activeLaunches = <<>>
    /\ now = 0
    /\ call = NoCall
    /\ ret = NoCall
    /\ bucket = <<>>
    /\ puts = <<>>
    /\ emergencyStatus = "STANDBY"
    /\ messagesVerified = 0
    /\ shownEmergency = "none"
    /\ PromoterIdle
    /\ ChiefPMIdle
    /\ env \in {[ConfiguredEnv EXCEPT !.ECOSYSTEM_ENABLED = enabled,
                                      !.DISCORD_CHANNEL_OPS = channel] :
                    enabled \in {"true", "false"}, channel \in {"", "ops"}}
    /\ pc = [i \in Runs |-> "idle"]
    /\ local = [i \in Runs |-> NoLocal]
    /\ outcome = [i \in Runs |-> "none"]
    /\ sent = <<>>

Next ==
    \/ \E i \in Invocations : Start(i)
    \/ \E i \in Invocations, token \in Tokens, putOk \in BOOLEAN : Snapshot(i, token, putOk)
    \/ \E i \in Invocations : GenerateFailed(i)
    \/ \E i \in Invocations, putOk \in BOOLEAN : StoreReport(i, putOk)
    \/ \E i \in Invocations, putOk \in BOOLEAN : PutLatest(i, putOk)
    \/ \E i \in Invocations, fetch \in FetchOutcomes : NotifyOps(i, fetch)
    \/ \E i \in Invocations, fetch \in FetchOutcomes : Escalate(i, fetch)
    \/ \E i \in Invocations, fetch \in FetchOutcomes : CatchNotify(i, fetch)
    \/ \E i \in Invocations, putOk \in BOOLEAN : ErrorRecord(i, putOk)
    \/ Advance(MaxTime)

Spec == Init /\ [][Next]_vars

(***************************************************************************)
(* SpecApi: a cron tick, a manual report generation and a status request,  *)
(* interleaved, and the clock.                                             *)
(***************************************************************************)
InitApi ==
    /\ goldReserveRatio = 999
    /\ deltaCollateralization = 1100
    /\ usdgbPegPrice = 1000
    /\ usdcaPegPrice = 1000
    /\ activeLaunches = <<>>
    /\ now = 0
    /\ call = NoCall
    /\ ret = NoCall
    /\ bucket = <<>>
    /\ puts = <<>>
    /\ emergencyStatus = "STANDBY"
    /\ messagesVerified = 0
    /\ shownEmergency = "none"
    /\ PromoterIdle
    /\ ChiefPMIdle
    /\ TickIdle

NextApi ==
    \/ Start("cron")
    \/ \E r \in Requests : RequestStart(r)
    \/ \E i \in Runs, token \in Tokens, putOk \in BOOLEAN : Snapshot(i, token, putOk)
    \/ GenerateFailed("cron")
    \/ \E putOk \in BOOLEAN : StoreReport("cron", putOk)
    \/ \E putOk \in BOOLEAN : PutLatest("cron", putOk)
    \/ \E fetch \in FetchOutcomes : NotifyOps("cron", fetch)
    \/ \E fetch \in FetchOutcomes : Escalate("cron", fetch)
    \/ \E fetch \in FetchOutcomes : CatchNotify("cron", fetch)
    \/ \E putOk \in BOOLEAN : ErrorRecord("cron", putOk)
    \/ StatusRespond
    \/ RouteGenerateFailed
    \/ \E putOk \in BOOLEAN : RouteStoreReport(putOk)
    \/ \E putOk \in BOOLEAN : RoutePutLatest(putOk)
    \/ Advance(MaxApiTime)

SpecApi == InitApi /\ [][NextApi]_vars

(***************************************************************************)
(* SpecTick: ticks of the cron trigger one after the other, under every    *)
(* configuration of the worker and metrics on either side of the alert     *)
(* thresholds.                                                             *)
(***************************************************************************)
\* the configured worker, the worker with one var or secret unset, the worker
\* with no notification configured, and the worker with monitoring disabled
\* or its flag unset
EnvConfigs ==
    {ConfiguredEnv,
     [ConfiguredEnv EXCEPT !.ECOSYSTEM_ENABLED = "false"],
     [ConfiguredEnv EXCEPT !.ECOSYSTEM_ENABLED = ""],
     [ConfiguredEnv EXCEPT !.DISCORD_CHANNEL_OPS = ""],
     [ConfiguredEnv EXCEPT !.DISCORD_BOT_TOKEN = ""],
     [ConfiguredEnv EXCEPT !.TELEGRAM_BOT_TOKEN = ""],
     [ConfiguredEnv EXCEPT !.TELEGRAM_CHAT_ID = ""],
     [ConfiguredEnv EXCEPT !.DISCORD_CHANNEL_OPS = "", !.DISCORD_BOT_TOKEN = "",
                           !.TELEGRAM_BOT_TOKEN = "", !.TELEGRAM_CHAT_ID = ""]}

InitTick ==
    /\ goldReserveRatio \in {1050, 999}
    /\ deltaCollateralization = 1100
    /\ usdgbPegPrice = 1000
    /\ usdcaPegPrice = 1000
    /\ activeLaunches = <<>>
    /\ now = 0
    /\ call = NoCall
    /\ ret = NoCall
    /\ bucket = <<>>
    /\ puts = <<>>
    /\ emergencyStatus = "STANDBY"
    /\ messagesVerified = 0
    /\ shownEmergency = "none"
    /\ PromoterIdle
    /\ ChiefPMIdle
    /\ env \in EnvConfigs
    /\ pc = [i \in Runs |-> "idle"]
    /\ local = [i \in Runs |-> NoLocal]
    /\ outcome = [i \in Runs |-> "none"]
    /\ sent = <<>>

\* the next tick starts when the one before it has finished
StartTick(i) ==
    /\ \A j \in Invocations \ {i} : pc[j] \in {"idle", "done"}
    /\ Start(i)

NextTick ==
    \/ \E i \in Invocations : StartTick(i)
    \/ \E i \in Invocations, token \in Tokens, putOk \in BOOLEAN : Snapshot(i, token, putOk)
    \/ \E i \in Invocations : GenerateFailed(i)
    \/ \E i \in Invocations, putOk \in BOOLEAN : StoreReport(i, putOk)
    \/ \E i \in Invocations, putOk \in BOOLEAN : PutLatest(i, putOk)
    \/ \E i \in Invocations, fetch \in FetchOutcomes : NotifyOps(i, fetch)
    \/ \E i \in Invocations, fetch \in FetchOutcomes : Escalate(i, fetch)
    \/ \E i \in Invocations, fetch \in FetchOutcomes : CatchNotify(i, fetch)
    \/ \E i \in Invocations, putOk \in BOOLEAN : ErrorRecord(i, putOk)
    \/ Advance(MaxTime)

SpecTick == InitTick /\ [][NextTick]_vars

(***************************************************************************)
(* Properties of risk classification and aggregation.                      *)
(***************************************************************************)
IsGovernorReturn ==
    ret.op \in {"GovernorAgent.getRiskStatus", "GovernorAgentWrapper.generateReport"}

CategoryLevels(status) ==
    {status.categories.collateral, status.categories.peg,
     status.categories.liquidity, status.categories.crossChain}

HasSeverity(alerts, severity) == \E i \in 1..Len(alerts) : alerts[i].severity = severity

\* C1: in every RiskStatus either governor returns, overall is one of the four
\* categories and no category ranks above it (overall = maximum category); so
\* all-GREEN gives GREEN and any RED gives RED.
C1_OverallIsWorstCategory ==
    IsGovernorReturn =>
        LET status == ret.val.riskStatus
        IN /\ status.overall \in CategoryLevels(status)
           /\ \A c \in CategoryLevels(status) : IndexOf(c) <= IndexOf(status.overall)
           /\ (CategoryLevels(status) = {"GREEN"} => status.overall = "GREEN")
           /\ ("RED" \in CategoryLevels(status) => status.overall = "RED")

C1_Witness ==
    /\ ret.op = "GovernorAgent.getRiskStatus"
    /\ ret.val.riskStatus.categories.collateral = "YELLOW"
    /\ ret.val.riskStatus.categories.peg = "RED"
    /\ ret.val.riskStatus.overall = "RED"

\* C6: the collateral class of a ratio r is GREEN iff r >= 1.05, YELLOW iff
\* 1.02 <= r < 1.05, ORANGE iff 1.00 <= r < 1.02, RED iff r < 1.00, in the governor
\* and in the report cycle's governor alike; no smaller ratio classifies better.
C6_CollateralBands ==
    call.op \in {"assessReserveRisk", "wrapperCollateralRisk"} =>
        LET r == call.arg
            level == call.ret
        IN /\ (level = "GREEN") <=> (r >= 1050)
           /\ (level = "YELLOW") <=> (1020 <= r /\ r < 1050)
           /\ (level = "ORANGE") <=> (1000 <= r /\ r < 1020)
           /\ (level = "RED") <=> (r < 1000)
           /\ \A lower \in 0..r : IndexOf(assessReserveRisk(lower)) >= IndexOf(level)
           /\ wrapperCollateralRisk(r) = assessReserveRisk(r)

C6_Witness ==
    /\ call.op = "assessReserveRisk"
    /\ call.arg = 1020
    /\ call.ret = "YELLOW"

\* C7: the peg class of a deviation d >= 0 is GREEN iff d <= 0.005, YELLOW iff
\* 0.005 < d <= 0.01, ORANGE iff 0.01 < d <= 0.02, RED iff d > 0.02; no smaller
\* deviation classifies worse; d = 0 is GREEN and d = 0.06 is RED.
C7_PegBands ==
    call.op = "assessPegRisk" =>
        LET d == call.arg
            level == call.ret
        IN /\ (level = "GREEN") <=> (d <= 5)
           /\ (level = "YELLOW") <=> (5 < d /\ d <= 10)
           /\ (level = "ORANGE") <=> (10 < d /\ d <= 20)
           /\ (level = "RED") <=> (d > 20)
           /\ \A lower \in 0..d : IndexOf(assessPegRisk(lower)) <= IndexOf(level)
           /\ (d = 0 => level = "GREEN")
           /\ (d = 60 => level = "RED")

C7_Witness ==
    /\ call.op = "assessPegRisk"
    /\ call.arg = 20
    /\ call.ret = "ORANGE"

PegAlertsOf(alerts) ==
    {alerts[i] : i \in {j \in 1..Len(alerts) :
                            alerts[j].type \in {"CRITICAL_PEG_DEVIATION", "HIGH_PEG_DEVIATION"}}}

\* C8: checkAlerts of the gold-backed agent holds a CRITICAL alert when its peg
\* deviation is > 0.05 or its reserve ratio is < 0.98, that of the synthetic agent
\* when its peg deviation is > 0.05 or its collateralization is < 1.00; a peg
\* deviation in (0.02, 0.05] gives a HIGH peg alert and no CRITICAL peg alert.
C8_CriticalAlerts ==
    /\ ret.op = "USDGBAgent.checkAlerts" =>
        /\ (usdgbPegDeviation > 50 \/ goldReserveRatio < 980) => HasSeverity(ret.val, "CRITICAL")
        /\ (20 < usdgbPegDeviation /\ usdgbPegDeviation <= 50) =>
               /\ PegAlertsOf(ret.val) # {}
               /\ \A a \in PegAlertsOf(ret.val) : a.severity = "HIGH"
    /\ ret.op = "USDcaAgent.checkAlerts" =>
        /\ (usdcaPegDeviation > 50 \/ deltaCollateralization < 1000) =>
               HasSeverity(ret.val, "CRITICAL")
        /\ (20 < usdcaPegDeviation /\ usdcaPegDeviation <= 50) =>
               /\ PegAlertsOf(ret.val) # {}
               /\ \A a \in PegAlertsOf(ret.val) : a.severity = "HIGH"

C8_Witness ==
    /\ ret.op = "USDGBAgent.checkAlerts"
    /\ goldReserveRatio = 979
    /\ usdgbPegDeviation = 50
    /\ Len(ret.val) = 2
    /\ ret.val[1].severity = "CRITICAL"
    /\ ret.val[2].severity = "HIGH"

NoLaunchNearCompletion ==
    \A i \in 1..Len(activeLaunches) :
        ~(activeLaunches[i].progressPercent >= 90 /\ activeLaunches[i].status = "ACTIVE")

\* C9: a token agent's checkAlerts is empty when its collateral metric and its
\* peg deviation classify GREEN (reserve >= 1.05, collateralization >= 1.10,
\* deviation <= 0.005); when both stablecoins are so and no active launch is at
\* >= 90%, the governor reports overall GREEN and no alert.
C9_NoAlertWhenGreen ==
    LET usdgbGreen == goldReserveRatio >= 1050 /\ usdgbPegDeviation <= 5
        usdcaGreen == deltaCollateralization >= 1100 /\ usdcaPegDeviation <= 5
    IN /\ (ret.op = "USDGBAgent.checkAlerts" /\ usdgbGreen) => ret.val = <<>>
       /\ (ret.op = "USDcaAgent.checkAlerts" /\ usdcaGreen) => ret.val = <<>>
       /\ (IsGovernorReturn /\ usdgbGreen /\ usdcaGreen /\ NoLaunchNearCompletion) =>
              /\ ret.val.riskStatus.overall = "GREEN"
              /\ ret.val.riskStatus.alerts = <<>>

C9_Witness ==
    /\ ret.op = "GovernorAgent.getRiskStatus"
    /\ goldReserveRatio = 1050
    /\ deltaCollateralization = 1100
    /\ usdgbPegDeviation = 5
    /\ usdcaPegDeviation = 5
    /\ ret.val.riskStatus.alerts = <<>>

\* C10: RiskStatus.alerts is the gold-backed agent's alerts, then the synthetic
\* agent's, then the launchpad agent's, each whole and in its own order: nothing
\* dropped, duplicated, reordered or added.
C10_AlertsConcatenated ==
    IsGovernorReturn =>
        LET alerts == ret.val.riskStatus.alerts
            n1 == Len(usdgbCheckAlerts)
            n2 == Len(usdcaCheckAlerts)
            n3 == Len(marketplaceCheckAlerts)
        IN /\ Len(alerts) = n1 + n2 + n3
           /\ \A i \in 1..n1 : alerts[i] = usdgbCheckAlerts[i]
           /\ \A i \in 1..n2 : alerts[n1 + i] = usdcaCheckAlerts[i]
           /\ \A i \in 1..n3 : alerts[n1 + n2 + i] = marketplaceCheckAlerts[i]

C10_Witness ==
    /\ ret.op = "GovernorAgent.getRiskStatus"
    /\ Len(usdgbCheckAlerts) = 1 /\ usdgbCheckAlerts[1].severity = "HIGH"
    /\ Len(usdcaCheckAlerts) = 1 /\ usdcaCheckAlerts[1].severity = "HIGH"
    /\ marketplaceCheckAlerts = <<>>
    /\ Len(ret.val.riskStatus.alerts) = 2

(***************************************************************************)
(* Properties of the report cycle and of the GovernorAgent operations.     *)
(***************************************************************************)
\* C2: handleScheduled never throws out to its caller, whatever fails inside:
\* report generation, any object-store write (the error record's included) or a
\* notification send.
C2_HandleScheduledNeverThrows == \A i \in Invocations : outcome[i] # "threw"

PendingProposals ==
    {bucket[key] : key \in {emergencyKeyAt(t) : t \in 0..MaxGovTime} \cap DOMAIN bucket}

\* C3: the PauseTransaction that prepareEmergencyPause persists under
\* emergency/pending/ and returns has status AWAITING_APPROVAL, and no stored
\* proposal is ever APPROVED.
C3_PauseAwaitsApproval ==
    /\ \A proposal \in PendingProposals : proposal.status = "AWAITING_APPROVAL"
    /\ (ret.op = "GovernorAgent.prepareEmergencyPause" /\ ~ret.threw) =>
           ret.val.status = "AWAITING_APPROVAL"

\* C4: the emergency status shown in governor reports is never PAUSED, and once
\* a report has shown ACTIVE no later report shows STANDBY.
C4_EmergencyShownOnlyForward ==
    [][/\ shownEmergency' # "PAUSED"
       /\ (shownEmergency = "ACTIVE" => shownEmergency' = "ACTIVE")]_vars

\* C5: verifyMessage on a message with an empty guid or a missing endpoint id
\* returns false and changes neither the counter nor the object store; the
\* counter grows (by one) and the store changes (at the message's
\* crosschain/{srcEid}-{dstEid}/{guid}.json key only) for a valid message only.
C5_InvalidMessageNoEffect ==
    [][\A msg \in Messages, putOk \in BOOLEAN :
         VerifyMessage(msg, putOk) =>
            LET invalid == msg.guid = "" \/ msg.srcEid = 0 \/ msg.dstEid = 0
                key == "crosschain/" \o ToString(msg.srcEid) \o "-" \o
                       ToString(msg.dstEid) \o "/" \o msg.guid \o ".json"
            IN /\ invalid => /\ ret'.val = FALSE
                             /\ ~ret'.threw
                             /\ messagesVerified' = messagesVerified
                             /\ bucket' = bucket
               /\ (messagesVerified' # messagesVerified \/ bucket' # bucket) =>
                      /\ ~invalid
                      /\ messagesVerified' = messagesVerified + 1
                      /\ DOMAIN bucket' \subseteq DOMAIN bucket \cup {key}
                      /\ \A k \in DOMAIN bucket \ {key} : bucket'[k] = bucket[k]
               /\ (~invalid /\ ret'.val = TRUE) =>
                      /\ messagesVerified' = messagesVerified + 1
                      /\ key \in DOMAIN bucket'
                      /\ bucket'[key].guid = msg.guid]_vars

C5_Witness ==
    /\ ret.op = "GovernorAgent.verifyMessage"
    /\ ret.val = FALSE
    /\ ~ret.threw
    /\ messagesVerified = 1
    /\ DOMAIN bucket = {"crosschain/1-1/g1.json"}

(***************************************************************************)
(* Properties of the object store under report cycles and routes.          *)
(***************************************************************************)
\* C11: every key but reports/latest.json is written at most once, whatever
\* runs (ticks, report generations, status requests) overlap or share a clock
\* tick.
C11_TimestampedKeysWrittenOnce ==
    \A key \in DOMAIN puts : key # "reports/latest.json" => puts[key] <= 1

CompletedWithoutFailure(i) ==
    /\ env.ECOSYSTEM_ENABLED = "true"
    /\ outcome[i] = "returned"
    /\ local[i].error = "none"

TimestampedKeyOf(report) ==
    "reports/" \o report.period \o "/" \o ToString(report.timestamp) \o ".json"

\* C12 as claimed: when an enabled tick has completed without a failure its
\* report has been written at reports/4h/{report.timestamp}.json and
\* reports/latest.json holds that same report; and reports/latest.json never
\* holds a report whose timestamped key is absent.
C12_LatestHoldsCompletedReport ==
    /\ \A i \in Invocations :
          CompletedWithoutFailure(i) =>
              /\ TimestampedKeyOf(local[i].report) \in DOMAIN puts
              /\ "reports/latest.json" \in DOMAIN bucket
              /\ bucket["reports/latest.json"] = serializeReport(local[i].report)
    /\ "reports/latest.json" \in DOMAIN bucket =>
          TimestampedKeyOf(bucket["reports/latest.json"]) \in DOMAIN bucket

\* C12 as amended: a run that writes reports/latest.json writes its own report
\* there, after that report was written at its timestamped key; a tick that
\* completed without a failure has made both writes (reports/latest.json may
\* since hold the report of a run that wrote it later); and at no point does
\* reports/latest.json hold a report whose timestamped key is absent.
C12_LatestWrittenAfterTimestamped ==
    [][/\ \A i \in Runs :
             (pc[i] = "latest" /\ pc'[i] # "latest" /\ local'[i].error = "none") =>
                 /\ TimestampedKeyOf(local[i].report) \in DOMAIN puts
                 /\ "reports/latest.json" \in DOMAIN bucket'
                 /\ bucket'["reports/latest.json"] = serializeReport(local[i].report)
       /\ \A i \in Invocations :
             CompletedWithoutFailure(i)' =>
                 /\ TimestampedKeyOf(local'[i].report) \in DOMAIN puts'
                 /\ "reports/latest.json" \in DOMAIN puts'
       /\ "reports/latest.json" \in DOMAIN bucket' =>
             TimestampedKeyOf(bucket'["reports/latest.json"]) \in DOMAIN bucket']_vars

C12_Witness ==
    /\ CompletedWithoutFailure("cron")
    /\ local["cron"].report.timestamp = 1
    /\ bucket["reports/latest.json"] = serializeReport(local["cron"].report)
    /\ bucket["reports/4h/1.json"] = serializeReport(local["cron"].report)

RunSucceeded(i) ==
    /\ outcome[i] \in {"returned", "responded"}
    /\ local[i].error = "none"

\* C13: after a tick and a manual report generation that ran concurrently have
\* both finished, reports/latest.json holds the complete report of one of them,
\* and each run's own timestamped report and snapshots are stored as that run
\* wrote them.
C13_ConcurrentRunsKeepTheirWrites ==
    (RunSucceeded("cron") /\ RunSucceeded("generate")) =>
        /\ bucket["reports/latest.json"] \in
               {serializeReport(local[i].report) : i \in {"cron", "generate"}}
        /\ \A i \in {"cron", "generate"} :
              /\ bucket[TimestampedKeyOf(local[i].report)] = serializeReport(local[i].report)
              /\ \A token \in Tokens :
                    LET snapshot == local[i].snapshots[token]
                    IN bucket["supply-snapshots/" \o token \o "/" \o
                              ToString(snapshot.timestamp) \o ".json"]
                          = serializeSnapshot(snapshot)

(***************************************************************************)
(* Properties of the notifications of a tick.                              *)
(***************************************************************************)
SentCount(send) == IF send \in DOMAIN sent THEN sent[send] ELSE 0

\* the sends of one kind that run i has attempted over one transport
SendsOf(i, transport, kind) ==
    SentCount([by |-> i, transport |-> transport, kind |-> kind, success |-> TRUE]) +
    SentCount([by |-> i, transport |-> transport, kind |-> kind, success |-> FALSE])

HasHighOrCritical(report) ==
    \/ HasSeverity(report.agents.governor.riskStatus.alerts, "HIGH")
    \/ HasSeverity(report.agents.governor.riskStatus.alerts, "CRITICAL")

\* C14: a tick sends at most one escalation, over Telegram only; a tick whose
\* report generation and persistence succeeded has sent one when it returns if
\* and only if the governor's alerts hold a HIGH or CRITICAL alert.
C14_EscalationIffHighAlert ==
    \A i \in Invocations :
        /\ SendsOf(i, "telegram", "escalation") <= 1
        /\ SendsOf(i, "discord", "escalation") = 0
        /\ (CompletedWithoutFailure(i) /\ pc[i] = "done") =>
               (SendsOf(i, "telegram", "escalation") = 1
                    <=> HasHighOrCritical(local[i].report))

C14_Witness ==
    /\ CompletedWithoutFailure("cron") /\ pc["cron"] = "done"
    /\ goldReserveRatio = 999
    /\ HasSeverity(local["cron"].report.agents.governor.riskStatus.alerts, "HIGH")
    /\ SendsOf("cron", "telegram", "escalation") = 1

\* C15: a tick whose report generation and persistence succeeded has attempted
\* exactly one summary send to the operations channel when it returns, whatever
\* the risk level, the alerts and the notification configuration.
C15_SummaryAlwaysSent ==
    \A i \in Invocations :
        (CompletedWithoutFailure(i) /\ pc[i] = "done") =>
            SendsOf(i, "discord", "summary") = 1

\* C16: a send that is not configured or whose request fails returns
\* success: false with an error and does not throw; whatever the summary send
\* returned, the tick goes on to the escalation, attempts it when there is a HIGH
\* or CRITICAL alert, and returns.
C16_FailedSendBlocksNothing ==
    [][/\ \A fetch \in FetchOutcomes :
             LET discord == sendDiscordMessage(env, env.DISCORD_CHANNEL_OPS, fetch)
                 telegram == sendTelegramMessage(env, "", fetch)
             IN /\ ~discord.threw /\ ~telegram.threw
                /\ (env.DISCORD_BOT_TOKEN = "" \/ env.DISCORD_CHANNEL_OPS = "" \/ fetch # "ok")
                       => (~discord.success /\ discord.error # "")
                /\ (env.TELEGRAM_BOT_TOKEN = "" \/ env.TELEGRAM_CHAT_ID = "" \/ fetch # "ok")
                       => (~telegram.success /\ telegram.error # "")
       /\ \A i \in Invocations :
             /\ (pc[i] = "notify" /\ pc'[i] # "notify") =>
                    /\ pc'[i] = "escalate"
                    /\ local'[i].error = "none"
             /\ (pc[i] = "escalate" /\ pc'[i] # "escalate") =>
                    /\ pc'[i] = "done"
                    /\ outcome'[i] = "returned"
                    /\ HasHighOrCritical(local[i].report) =>
                           SendsOf(i, "telegram", "escalation")' = 1]_vars

C16_Witness ==
    /\ pc["cron"] = "done" /\ outcome["cron"] = "returned"
    /\ env.DISCORD_BOT_TOKEN = ""
    /\ SentCount([by |-> "cron", transport |-> "discord", kind |-> "summary",
                  success |-> FALSE]) = 1
    /\ SentCount([by |-> "cron", transport |-> "telegram", kind |-> "escalation",
                  success |-> TRUE]) = 1

\* C17: with ECOSYSTEM_ENABLED other than "true" a tick runs no agent, writes
\* nothing to the object store and sends nothing; it just returns.
C17_DisabledTickIsNoOp ==
    env.ECOSYSTEM_ENABLED # "true" =>
        /\ bucket = <<>> /\ puts = <<>>
        /\ sent = <<>>
        /\ \A i \in Invocations :
              /\ local[i] = NoLocal
              /\ pc[i] \in {"idle", "done"}
              /\ outcome[i] \in {"none", "returned"}

C17_Witness ==
    /\ env.ECOSYSTEM_ENABLED = ""
    /\ pc["cron"] = "done" /\ outcome["cron"] = "returned"
    /\ pc["manual"] = "done"
    /\ now > 0
    /\ bucket = <<>>

(***************************************************************************)
(* Properties of the failure handling of a tick.                           *)
(***************************************************************************)
\* report generation or persistence failed in run i, or one of its sends
\* returned success: false
TickFailed(i) ==
    \/ local[i].error # "none"
    \/ \E transport \in {"discord", "telegram"}, kind \in {"summary", "escalation"} :
          SentCount([by |-> i, transport |-> transport, kind |-> kind,
                     success |-> FALSE]) > 0

ErrorRecords ==
    {bucket[key] : key \in {"errors/" \o ToString(t) \o ".json" : t \in 0..MaxTime}
                               \cap DOMAIN bucket}

\* C18: an enabled tick in which report generation, report persistence or a
\* notification failed has, when it returns, stored an error record under
\* errors/ and attempted one crash notification to the operations channel.
C18_FailureLeavesErrorRecord ==
    \A i \in Invocations :
        (env.ECOSYSTEM_ENABLED = "true" /\ outcome[i] = "returned" /\ TickFailed(i)) =>
            /\ \E record \in ErrorRecords : record.task = "scheduled-report"
            /\ SendsOf(i, "discord", "crash") = 1

\* C19: an enabled tick (of a worker with an operations channel) in which an
\* object-store write failed has, when it is over, still sent the summary and,
\* with a reserve ratio that raises a HIGH or CRITICAL alert, the escalation.
C19_WriteFailureDoesNotAbort ==
    \A i \in Invocations :
        (/\ env.ECOSYSTEM_ENABLED = "true"
         /\ env.DISCORD_CHANNEL_OPS # ""
         /\ pc[i] = "done"
         /\ local[i].error = "put failed") =>
            /\ SendsOf(i, "discord", "summary") = 1
            /\ goldReserveRatio < 1000 => SendsOf(i, "telegram", "escalation") = 1

\* C20: the generateReport of a token agent, whoever calls it (a tick, a report
\* generation, a status request), leaves the object store as it was.
C20_GenerateReportWritesNothing ==
    [][\A i \in Runs, token \in Tokens, putOk \in BOOLEAN :
         Snapshot(i, token, putOk) => (bucket' = bucket /\ puts' = puts)]_vars

(***************************************************************************)
(* Properties of the supply snapshots and of their stored form.            *)
(***************************************************************************)
\* the number a large-integer field stands for, as a bigint or as the decimal
\* string of one
NumericValue(value) ==
    IF "bigint" \in DOMAIN value THEN value.bigint ELSE value.string

\* C21: a getSupplySnapshot whose put resolves does not fail, stores the new
\* snapshot at supply-snapshots/{token}/{timestamp}.json and returns it with
\* totalChange24h equal to the new totalSupply minus the totalSupply stored at
\* now - 24h when that snapshot exists, and equal to zero when it does not.
C21_SupplySnapshotChange ==
    [][\A i \in Invocations, token \in Tokens :
         Snapshot(i, token, TRUE) =>
            /\ local'[i].error = local[i].error
            /\ snapshotKey(token, now) \in DOMAIN bucket'
            /\ token \in DOMAIN local'[i].snapshots
            /\ local'[i].snapshots[token].totalChange24h =
                  IF snapshotKey(token, now - DAY) \in DOMAIN bucket
                  THEN BigInt(chainSupply.bigint
                              - NumericValue(bucket[snapshotKey(token, now - DAY)].totalSupply))
                  ELSE BigInt(0)]_vars

\* C22: the snapshot a getSupplySnapshot has stored reads back equal to the
\* snapshot it returned, and the totalSupply read back can be subtracted from a
\* bigint.
C22_StoredSnapshotRoundTrip ==
    [][\A i \in Invocations, token \in Tokens :
         (Snapshot(i, token, TRUE) /\ local'[i].error = local[i].error) =>
            /\ bucket'[snapshotKey(token, now)] = local'[i].snapshots[token]
            /\ bigintMinus(chainSupply, bucket'[snapshotKey(token, now)].totalSupply)
                  # TypeError]_vars

(***************************************************************************)
(* Alert routing.                                                          *)
(***************************************************************************)
\* the routing table of the risk-management skill
ALERT_ROUTES ==
    [GREEN |-> [level |-> "GREEN", channels |-> <<>>, requiresAck |-> FALSE],
     YELLOW |-> [level |-> "YELLOW", channels |-> <<"discord">>, requiresAck |-> FALSE],
     ORANGE |-> [level |-> "ORANGE", channels |-> <<"discord", "telegram">>,
                 requiresAck |-> TRUE],
     RED |-> [level |-> "RED", channels |-> <<"discord", "telegram", "email">>,
              requiresAck |-> TRUE]]

\* the channels over which run i has dispatched its report
DispatchedChannels(i) ==
    {transport \in {"discord", "telegram", "email"} :
        SendsOf(i, transport, "summary") + SendsOf(i, transport, "escalation") > 0}

\* C23: a tick of a fully configured worker that generated and stored its report
\* has dispatched it, when it is over, over exactly the channels the routing
\* table gives for the report's overall risk level.
C23_ChannelsFollowRoutingTable ==
    \A i \in Invocations :
        (env = ConfiguredEnv /\ CompletedWithoutFailure(i) /\ pc[i] = "done") =>
            DispatchedChannels(i) =
                Range(ALERT_ROUTES[local[i].report.agents.governor.riskStatus.overall].channels)

(***************************************************************************)
(* Consistency of the two governors.                                       *)
(***************************************************************************)
\* C25: a RiskStatus either governor returns whose alerts hold a CRITICAL alert
\* (reserve ratio < 0.98, collateralization < 1.00, or a stablecoin's peg
\* deviation > 0.05) has overall risk RED.
C25_CriticalAlertMeansRed ==
    IsGovernorReturn =>
        (HasSeverity(ret.val.riskStatus.alerts, "CRITICAL") =>
            ret.val.riskStatus.overall = "RED")

\* C26: the RiskStatus GovernorAgentWrapper.generateReport returns has the
\* categories, the overall level and the alerts that GovernorAgent.getRiskStatus
\* returns for the same metrics.
C26_WrapperEquivalentToGovernor ==
    ret.op = "GovernorAgentWrapper.generateReport" =>
        /\ ret.val.riskStatus.categories = getRiskStatus.categories
        /\ ret.val.riskStatus.overall = getRiskStatus.overall
        /\ ret.val.riskStatus.alerts = getRiskStatus.alerts

(***************************************************************************)
(* The count of verified cross-chain messages.                             *)
(***************************************************************************)
CrossChainKeys == {crossChainKey(msg) : msg \in Messages}

\* the audit records stored under crosschain/
AuditRecords == CrossChainKeys \cap DOMAIN bucket

\* the verifyMessage calls that returned true: each made one put under
\* crosschain/ that resolved
VerifiedCalls == PutsAt(CrossChainKeys \cap DOMAIN puts)

\* C30: the crossChainMessagesVerified of a report of the GovernorAgent equals
\* the number of verifyMessage calls that returned true and the number of audit
\* records stored under crosschain/.
C30_VerifiedCountMatchesAudit ==
    ret.op = "GovernorAgent.generateReport" =>
        /\ ret.val.crossChainMessagesVerified = VerifiedCalls
        /\ ret.val.crossChainMessagesVerified = Cardinality(AuditRecords)

(***************************************************************************)
(* PromoterAgent (governor-agent.ts): marketing drafts, their approval and  *)
(* the export requests.  Each operation is one step; operations follow one  *)
(* another.                                                                 *)
(***************************************************************************)
ecosystemVars == <<metricVars, call, governorVars, tickVars>>

ContentTypes == {"tweet"}
\* a text that is a wallet address
WalletAddress == "0x52908400098527886E0F7030069857D2E4169EE7"
Contents == {WalletAddress}
Destinations == {"twitter", "n8n"}
Reviewers == {"chief"}

\* the null an operation returns
Null == [null |-> TRUE]

\* constructor: env.ALLOWED_EXPORTS?.split(",") || []; ALLOWED_EXPORTS is held
\* as the sequence of its comma-separated parts, <<>> when it is unset
allowedExports == promoterEnv.ALLOWED_EXPORTS

sanitizeContent(content) == IF content = WalletAddress THEN "[ADDRESS]" ELSE content

draftId == "PROMO-" \o ToString(now)

draftKey(id) == "drafts/" \o id \o ".json"

exportKey(id) == "exports/pending/" \o id \o ".json"

DraftIds == {"PROMO-" \o ToString(t) : t \in 0..MaxPromoTime}

\* getDraft: the parsed object, or null
getDraft(id) ==
    IF draftKey(id) \in DOMAIN promoterBucket THEN promoterBucket[draftKey(id)] ELSE Null

PromoterReturn(op, val, threw) ==
    ret' = [op |-> "PromoterAgent." \o op, val |-> val, threw |-> threw]

\* storeDraft: the put resolves or rejects
storeDraft(op, draft, putOk) ==
    IF putOk
    THEN /\ promoterBucket' = Put(promoterBucket, draftKey(draft.id), draft)
         /\ PromoterReturn(op, draft, FALSE)
    ELSE /\ UNCHANGED promoterBucket
         /\ PromoterReturn(op, Null, TRUE)

CreateDraft(type, content, putOk) ==
    /\ storeDraft("createDraft",
                  [id |-> draftId, type |-> type, content |-> sanitizeContent(content),
                   status |-> "DRAFT", createdAt |-> now], putOk)
    /\ UNCHANGED <<ecosystemVars, now, promoterEnv, chiefpmVars>>

\* the draft is stored before the webhook is notified; a fetch that rejects
\* makes the call throw after the store
SubmitForApproval(id, putOk, fetchOk) ==
    /\ LET draft == getDraft(id)
       IN IF draft = Null
          THEN /\ PromoterReturn("submitForApproval", Null, FALSE)
               /\ UNCHANGED promoterBucket
          ELSE LET pending == [draft EXCEPT !.status = "PENDING_APPROVAL"]
               IN IF putOk /\ promoterEnv.APPROVAL_WEBHOOK # "" /\ ~fetchOk
                  THEN /\ promoterBucket' = Put(promoterBucket, draftKey(id), pending)
                       /\ PromoterReturn("submitForApproval", Null, TRUE)
                  ELSE storeDraft("submitForApproval", pending, putOk)
    /\ UNCHANGED <<ecosystemVars, now, promoterEnv, chiefpmVars>>

isPendingApproval(draft) == draft.status = "PENDING_APPROVAL"

ApproveContent(id, approvedBy, putOk) ==
    /\ LET draft == getDraft(id)
       IN IF draft = Null \/ ~isPendingApproval(draft)
          THEN /\ PromoterReturn("approveContent", Null, FALSE)
               /\ UNCHANGED promoterBucket
          ELSE storeDraft("approveContent",
                          [k \in DOMAIN draft \cup {"approvedBy", "approvedAt"} |->
                              CASE k = "status" -> "APPROVED"
                                [] k = "approvedBy" -> approvedBy
                                [] k = "approvedAt" -> now
                                [] OTHER -> draft[k]], putOk)
    /\ UNCHANGED <<ecosystemVars, now, promoterEnv, chiefpmVars>>

RejectContent(id, putOk) ==
    /\ LET draft == getDraft(id)
       IN IF draft = Null \/ ~isPendingApproval(draft)
          THEN /\ PromoterReturn("rejectContent", Null, FALSE)
               /\ UNCHANGED promoterBucket
          ELSE storeDraft("rejectContent", [draft EXCEPT !.status = "REJECTED"], putOk)
    /\ UNCHANGED <<ecosystemVars, now, promoterEnv, chiefpmVars>>

isApproved_notRejected(draft) == draft.status \in {"APPROVED", "PENDING_APPROVAL"}

isApproved(draft) == draft.status = "APPROVED"

RequestExport(id, destination, putOk) ==
    /\ IF destination \notin Range(allowedExports)
       THEN /\ PromoterReturn("requestExport", Null, FALSE)
            /\ UNCHANGED promoterBucket
       ELSE LET draft == getDraft(id)
            IN IF draft = Null \/ ~isApproved(draft)
               THEN /\ PromoterReturn("requestExport", Null, FALSE)
                    /\ UNCHANGED promoterBucket
               ELSE LET request == [id |-> "EXPORT-" \o ToString(now),
                                    destination |-> destination, content |-> draft,
                                    status |-> "PENDING", createdAt |-> now]
                    IN IF putOk
                       THEN /\ promoterBucket' = Put(promoterBucket, exportKey(request.id),
                                                     request)
                            /\ PromoterReturn("requestExport", request, FALSE)
                       ELSE /\ UNCHANGED promoterBucket
                            /\ PromoterReturn("requestExport", Null, TRUE)
    /\ UNCHANGED <<ecosystemVars, now, promoterEnv, chiefpmVars>>

PromoterAdvance ==
    /\ now < MaxPromoTime
    /\ now' = now + 1
    /\ UNCHANGED <<ecosystemVars, ret, promoterVars, chiefpmVars>>

\* an instance with ALLOWED_EXPORTS and APPROVAL_WEBHOOK unset, and one with one
\* allowed destination and a webhook
InitPromoter ==
    /\ goldReserveRatio = 1050
    /\ deltaCollateralization = 1100
    /\ usdgbPegPrice = 1000
    /\ usdcaPegPrice = 1000
    /\ activeLaunches = <<>>
    /\ now = 0
    /\ call = NoCall
    /\ ret = NoCall
    /\ bucket = <<>>
    /\ puts = <<>>
    /\ emergencyStatus = "STANDBY"
    /\ messagesVerified = 0
    /\ shownEmergency = "none"
    /\ TickIdle
    /\ ChiefPMIdle
    /\ promoterEnv \in {[ALLOWED_EXPORTS |-> <<>>, APPROVAL_WEBHOOK |-> ""],
                        [ALLOWED_EXPORTS |-> <<"twitter">>, APPROVAL_WEBHOOK |-> "hook"]}
    /\ promoterBucket = <<>>

NextPromoter ==
    \/ \E type \in ContentTypes, content \in Contents, putOk \in BOOLEAN :
           CreateDraft(type, content, putOk)
    \/ \E id \in DraftIds, putOk \in BOOLEAN, fetchOk \in BOOLEAN :
           SubmitForApproval(id, putOk, fetchOk)
    \/ \E id \in DraftIds, approvedBy \in Reviewers, putOk \in BOOLEAN :
           ApproveContent(id, approvedBy, putOk)
    \/ \E id \in DraftIds, putOk \in BOOLEAN : RejectContent(id, putOk)
    \/ \E id \in DraftIds, destination \in Destinations, putOk \in BOOLEAN :
           RequestExport(id, destination, putOk)
    \/ PromoterAdvance

SpecPromoter == InitPromoter /\ [][NextPromoter]_vars

(***************************************************************************)
(* Properties of the promoter's approval workflow.                         *)
(***************************************************************************)
ExportKeys == {exportKey("EXPORT-" \o ToString(t)) : t \in 0..MaxPromoTime}

StoredExports == {promoterBucket[key] : key \in ExportKeys \cap DOMAIN promoterBucket}

HasStatus(store, id, status) ==
    /\ draftKey(id) \in DOMAIN store
    /\ store[draftKey(id)].status = status

\* C24: every stored export request names an allowed destination and holds
\* content with status APPROVED and a reviewer; a step that stores an export
\* request stores the draft as it stands in the store, APPROVED; and a step that
\* makes a stored draft APPROVED is an approveContent on that draft stored as
\* PENDING_APPROVAL.
C24_ExportOnlyOfApprovedContent ==
    /\ [](\A request \in StoredExports :
             /\ request.destination \in Range(allowedExports)
             /\ request.content.status = "APPROVED"
             /\ "approvedBy" \in DOMAIN request.content
             /\ request.content.approvedBy \in Reviewers)
    /\ [][/\ \A key \in ExportKeys :
               (/\ key \in DOMAIN promoterBucket'
                /\ (key \in DOMAIN promoterBucket => promoterBucket'[key] # promoterBucket[key]))
               => /\ ret'.op = "PromoterAgent.requestExport"
                  /\ HasStatus(promoterBucket, promoterBucket'[key].content.id, "APPROVED")
                  /\ promoterBucket'[key].content =
                        promoterBucket[draftKey(promoterBucket'[key].content.id)]
          /\ \A id \in DraftIds :
               (HasStatus(promoterBucket', id, "APPROVED")
                    /\ ~HasStatus(promoterBucket, id, "APPROVED"))
               => /\ ret'.op = "PromoterAgent.approveContent"
                  /\ HasStatus(promoterBucket, id, "PENDING_APPROVAL")]_vars

C24_Witness ==
    /\ ret.op = "PromoterAgent.requestExport"
    /\ ~ret.threw
    /\ ret.val # Null
    /\ ret.val \in StoredExports
    /\ ret.val.destination = "twitter"
    /\ ret.val.content.status = "APPROVED"
    /\ ret.val.content.content = "[ADDRESS]"

\* C27: a stored draft that is APPROVED or REJECTED keeps its status in every
\* step, and the status of a stored draft changes only from DRAFT to
\* PENDING_APPROVAL and from PENDING_APPROVAL to APPROVED or REJECTED.
C27_StatusOnlyMovesForward ==
    [][\A id \in DraftIds :
         draftKey(id) \in DOMAIN promoterBucket =>
            LET before == promoterBucket[draftKey(id)].status
                after == promoterBucket'[draftKey(id)].status
            IN /\ draftKey(id) \in DOMAIN promoterBucket'
               /\ before \in {"APPROVED", "REJECTED"} => after = before
               /\ after # before =>
                     \/ before = "DRAFT" /\ after = "PENDING_APPROVAL"
                     \/ before = "PENDING_APPROVAL" /\ after \in {"APPROVED", "REJECTED"}]_vars

(***************************************************************************)
(* ChiefPMAgent (chiefpm/agent.ts) behind handleChiefPMRequest              *)
(* (chiefpm/routes.ts).  A request that touches the task list reads it      *)
(* from the KV in one step and writes it back in a later one.  Two requests  *)
(* arrive, in any order and overlap, at a worker whose KV is empty or holds  *)
(* one task.  A property whose value is undefined is held as an absent       *)
(* property, which is what JSON.stringify stores.                            *)
(***************************************************************************)
promoterIdleVars == <<ecosystemVars, ret, promoterVars>>

\* crypto.randomUUID(): the id of the task stored at the start and the ids
\* issued after it; "ff" is an id of no task
StoredId == "a1"
FreshIds == {"a2", "a3"}
UnknownId == "ff"
UpdateKeys == {"status", "lastReport", "errors", "completedCriteria"}

\* request bodies of POST /chiefpm/tasks and of PATCH /chiefpm/tasks/:id
AddBodies == {[name |-> "alpha", projectPath |-> "/p", taskFile |-> "TASK.md"],
              [projectPath |-> "/p", taskFile |-> "TASK.md"]}
PatchBodies == {[status |-> "in_progress"],
                [status |-> "blocked", lastReport |-> "r1", errors |-> <<"boom">>,
                 completedCriteria |-> <<"c1">>]}

PmOperations ==
    {[route |-> "POST /tasks", body |-> body] : body \in AddBodies} \cup
    {[route |-> "PATCH /tasks/:id", id |-> id, body |-> body] :
        id \in {StoredId, UnknownId}, body \in PatchBodies} \cup
    {[route |-> "POST /tasks/:id/complete", id |-> id] : id \in {StoredId, UnknownId}}

\* getTasks: the parsed 'tasks' value, [] when there is none or no KV is bound
getTasks ==
    IF ~chiefpmEnv.CHIEFPM_TASKS_KV THEN <<>>
    ELSE IF "tasks" \in DOMAIN kv THEN kv["tasks"]
    ELSE <<>>

\* saveTasks: put of JSON.stringify(tasks), or nothing when no KV is bound
saveTasks(tasks) ==
    IF ~chiefpmEnv.CHIEFPM_TASKS_KV THEN UNCHANGED kv
    ELSE kv' = Put(kv, "tasks", tasks)

\* the response, by its status
Respond(r, status) ==
    /\ pmPc' = [pmPc EXCEPT ![r] = "done"]
    /\ pmLocal' = [pmLocal EXCEPT ![r] = [response |-> [status |-> status]]]

\* findIndex(t => t.id === taskId), 0 for -1
RECURSIVE findIndex(_, _, _)
findIndex(tasks, taskId, n) ==
    IF n > Len(tasks) THEN 0
    ELSE IF tasks[n].id = taskId THEN n
    ELSE findIndex(tasks, taskId, n + 1)

\* the update the PATCH route hands to updateTaskStatus names all four
\* properties, those missing from the body with the value undefined
routeUpdate(body) ==
    [defined |-> [k \in DOMAIN body \cap UpdateKeys |-> body[k]],
     undefined |-> UpdateKeys \ DOMAIN body]

\* completeTask
completeUpdate == [defined |-> [status |-> "completed"], undefined |-> {}]

updateOf(request) ==
    IF request.route = "PATCH /tasks/:id" THEN routeUpdate(request.body) ELSE completeUpdate

\* {...task, ...update, updatedAt, iterations: task.iterations + 1}
updatedTask(task, update) ==
    [k \in (DOMAIN task \cup DOMAIN update.defined) \ update.undefined |->
        CASE k = "updatedAt" -> now
          [] k = "iterations" -> task.iterations + 1
          [] k \in DOMAIN update.defined -> update.defined[k]
          [] OTHER -> task[k]]

newTask(id, body) ==
    [name |-> body.name, projectPath |-> body.projectPath, taskFile |-> body.taskFile,
     status |-> "pending", priority |-> "medium", successCriteria |-> <<>>,
     id |-> id, createdAt |-> now, updatedAt |-> now, iterations |-> 0,
     errors |-> <<>>, completedCriteria |-> <<>>]

IdsIn(tasks) == {tasks[n].id : n \in 1..Len(tasks)}

\* the ids the KV or a request in flight holds
IssuedIds ==
    IdsIn(getTasks) \cup
    UNION {IdsIn(pmLocal[r].tasks) : r \in {q \in PmRequests : "tasks" \in DOMAIN pmLocal[q]}}

\* the request arrives: the enabled check, the validation of the body, and the
\* agent's getTasks
PmBegin(r, request) ==
    /\ pmPc[r] = "idle"
    /\ IF chiefpmEnv.CHIEFPM_ENABLED # "true"
       THEN Respond(r, 503)
       ELSE IF request.route = "POST /tasks" /\ "name" \notin DOMAIN request.body
       THEN Respond(r, 400)
       ELSE /\ pmPc' = [pmPc EXCEPT ![r] = "read"]
            /\ pmLocal' = [pmLocal EXCEPT ![r] = [request |-> request, tasks |-> getTasks]]
    /\ UNCHANGED <<promoterIdleVars, now, chiefpmEnv, kv>>

\* addTask after its getTasks
PmAddTask(r, id) ==
    /\ pmPc[r] = "read"
    /\ pmLocal[r].request.route = "POST /tasks"
    /\ id \in FreshIds \ IssuedIds
    /\ LET task == newTask(id, pmLocal[r].request.body)
       IN /\ saveTasks(Append(pmLocal[r].tasks, task))
          /\ Respond(r, 201)
    /\ UNCHANGED <<promoterIdleVars, now, chiefpmEnv>>

\* updateTaskStatus after its getTasks, called by the PATCH route or by
\* completeTask
PmUpdateTaskStatus(r) ==
    /\ pmPc[r] = "read"
    /\ pmLocal[r].request.route \in {"PATCH /tasks/:id", "POST /tasks/:id/complete"}
    /\ LET tasks == pmLocal[r].tasks
           taskIndex == findIndex(tasks, pmLocal[r].request.id, 1)
       IN IF taskIndex = 0
          THEN /\ Respond(r, 404)
               /\ UNCHANGED kv
          ELSE LET task == updatedTask(tasks[taskIndex], updateOf(pmLocal[r].request))
               IN /\ saveTasks([tasks EXCEPT ![taskIndex] = task])
                  /\ Respond(r, 200)
    /\ UNCHANGED <<promoterIdleVars, now, chiefpmEnv>>

PmAdvance ==
    /\ now < MaxPmTime
    /\ now' = now + 1
    /\ UNCHANGED <<promoterIdleVars, chiefpmVars>>

\* the task an addTask and a PATCH with every property have left in the KV
StoredTask ==
    [name |-> "alpha", projectPath |-> "/p", taskFile |-> "TASK.md",
     status |-> "blocked", priority |-> "medium", successCriteria |-> <<>>,
     id |-> StoredId, createdAt |-> 0, updatedAt |-> 0, iterations |-> 1,
     lastReport |-> "r1", errors |-> <<"boom">>, completedCriteria |-> <<"c1">>]

\* the worker with ChiefPM enabled and its KV bound, enabled without a KV, and
\* not enabled; the KV, when bound, empty or holding one task
InitChiefPM ==
    /\ goldReserveRatio = 1050
    /\ deltaCollateralization = 1100
    /\ usdgbPegPrice = 1000
    /\ usdcaPegPrice = 1000
    /\ activeLaunches = <<>>
    /\ now = 0
    /\ call = NoCall
    /\ ret = NoCall
    /\ bucket = <<>>
    /\ puts = <<>>
    /\ emergencyStatus = "STANDBY"
    /\ messagesVerified = 0
    /\ shownEmergency = "none"
    /\ TickIdle
    /\ PromoterIdle
    /\ chiefpmEnv \in {[CHIEFPM_ENABLED |-> "true", CHIEFPM_TASKS_KV |-> TRUE],
                       [CHIEFPM_ENABLED |-> "true", CHIEFPM_TASKS_KV |-> FALSE],
                       [CHIEFPM_ENABLED |-> "", CHIEFPM_TASKS_KV |-> TRUE]}
    /\ kv \in {<<>>, [tasks |-> <<StoredTask>>]}
    /\ chiefpmEnv.CHIEFPM_TASKS_KV \/ kv = <<>>
    /\ pmPc = [r \in PmRequests |-> "idle"]
    /\ pmLocal = [r \in PmRequests |-> NoRequest]

NextChiefPM ==
    \/ \E r \in PmRequests, request \in PmOperations : PmBegin(r, request)
    \/ \E r \in PmRequests, id \in FreshIds : PmAddTask(r, id)
    \/ \E r \in PmRequests : PmUpdateTaskStatus(r)
    \/ PmAdvance

SpecChiefPM == InitChiefPM /\ [][NextChiefPM]_vars

(***************************************************************************)
(* Properties of the ChiefPM task list.                                    *)
(***************************************************************************)
\* request r completes in this step
PmCompletes(r) == pmPc[r] = "read" /\ pmPc'[r] = "done"

StoredTasks(store) == IF "tasks" \in DOMAIN store THEN store["tasks"] ELSE <<>>

TaskOf(tasks, id) == tasks[CHOOSE n \in 1..Len(tasks) : tasks[n].id = id]

\* C28: a PATCH /chiefpm/tasks/:id of a worker with a KV that names no task of
\* the list answers 404 and leaves the KV as it was; one that names a task
\* stores it with the properties of the request body, updatedAt set, iterations
\* one higher, and every other property as it was read.
C28_UpdateChangesOnlySuppliedFields ==
    [][\A r \in PmRequests :
         (/\ PmCompletes(r)
          /\ chiefpmEnv.CHIEFPM_TASKS_KV
          /\ pmLocal[r].request.route = "PATCH /tasks/:id") =>
            LET request == pmLocal[r].request
            IN IF request.id \notin IdsIn(pmLocal[r].tasks)
               THEN /\ pmLocal'[r].response.status = 404
                    /\ kv' = kv
               ELSE LET before == TaskOf(pmLocal[r].tasks, request.id)
                        after == TaskOf(StoredTasks(kv'), request.id)
                    IN /\ \A k \in DOMAIN request.body :
                             k \in DOMAIN after /\ after[k] = request.body[k]
                       /\ after.updatedAt = now
                       /\ after.iterations = before.iterations + 1
                       /\ \A k \in DOMAIN before \ (DOMAIN request.body
                                                     \cup {"updatedAt", "iterations"}) :
                             k \in DOMAIN after /\ after[k] = before[k]]_vars

\* C29: a request that writes the task list leaves in it every task stored
\* before, unchanged unless it is the task the request updates, and an update
\* raises the iterations of the task as stored before by one; so the effects of
\* requests that interleave are all in the stored list.
C29_NoLostUpdate ==
    [][\A r \in PmRequests :
         (PmCompletes(r) /\ kv' # kv) =>
            LET request == pmLocal[r].request
                before == StoredTasks(kv)
                after == StoredTasks(kv')
            IN /\ IdsIn(before) \subseteq IdsIn(after)
               /\ \A id \in IdsIn(before) :
                     IF request.route # "POST /tasks" /\ request.id = id
                     THEN TaskOf(after, id).iterations = TaskOf(before, id).iterations + 1
                     ELSE TaskOf(after, id) = TaskOf(before, id)]_vars

=============================================================================
